---- MODULE Spec2Model ----
(***************************************************************************)
(* Model of the OCR pipeline of src/main.py: create_output_directory,      *)
(* is_image_file, convert_image_to_pdf, process_file, process_pdf,         *)
(* save_ocr_results and replace_images_in_markdown.                        *)
(*                                                                         *)
(* Text is a sequence of atoms (strings).  A Markdown image reference      *)
(* "![x](y)" is the atom sequence  "![" x "](" y ")" ; the relative path   *)
(* "images/x.png" is the atom sequence  "images/" x ".png".                *)
(* A filesystem path is a record [dir, name]: dir is the atom sequence of  *)
(* the directory ("outputs/" and the run directory's name; <<>> for the    *)
(* working directory), name the atom sequence of the path below it.        *)
(***************************************************************************)
EXTENDS Integers, Sequences, FiniteSets, TLC

VARIABLES
    now,            \* wall clock read by datetime.now(), in seconds
    fs,             \* filesystem: path -> content (atom sequence)
    wlog,           \* history: set of [run, path] written or created by a run
    calls,          \* history: set of [run, entry, ts, stem, dir], one per create_output_directory call
    run,            \* number of the current top-level call (0 before the first)
    entry,          \* which function the caller invoked in this run
    pc,             \* position of the current call
    file_path,      \* process_file's file_path argument
    pdf_path,       \* process_pdf's pdf_path argument
    output_dir,     \* output_dir local / argument (NoneDir when None)
    origin_file,    \* process_file's origin_file local
    is_img,         \* result of is_image_file(file_path) in process_file
    submitted,      \* history: sequence of paths handed to process_pdf in this run
    remoteLog,      \* history: sequence of remote operations issued in this run
    uploaded_file,  \* id of the object returned by client.files.upload
    signed_url,     \* url of the object returned by client.files.get_signed_url
    response,       \* pdf_response / ocr_response: sequence of pages
    pageIdx,        \* save_ocr_results: index of the page being walked
    imgIdx,         \* save_ocr_results: index of the image being walked
    page_images,    \* save_ocr_results: the page's dict, as a sequence of <<id, path>>
    all_markdowns,  \* save_ocr_results: list of rewritten page texts
    ret,            \* markdown_content returned to the caller
    exc             \* exception that ended the call ("none" when it returned or still runs)

\* MarkdownPreviewApp (the Tk main thread and its background worker)
VARIABLES
    file_path_var,      \* self.file_path_var: the selected path (NoPath when empty)
    api_key_var,        \* self.api_key_var
    buttons,            \* state of process/browse/refresh/preview/open_folder buttons
    progress,           \* whether self.progress_bar is running
    source_text,        \* content of self.source_text
    status,             \* self.status_var
    current_output_dir, \* self.current_output_dir (NoneDir when None)
    last_dialog,        \* title of the last messagebox shown ("none" before any)
    afterQueue,         \* callbacks posted with self.after(0, ...), in order
    wpc,                \* position of the worker thread in _process_file_thread
    w_args,             \* the file_path argument the worker thread was started with
    workers,            \* number of live worker threads
    posted,             \* history: callbacks the current worker has posted
    actor               \* history: the thread that took the last step

\* main_cli
VARIABLES
    cli_files,          \* args.files
    cli_auto,           \* args.auto
    cli_i,              \* the loop index i, from 1
    cli_pc,             \* position of main_cli
    cli_attempts,       \* history: indices handed to process_file, in order
    cli_reported,       \* history: the failure reports printed, in order
    cli_prompts,        \* history: indices after which a prompt was shown, in order
    cli_response,       \* response, the last answer read ("none" before any)
    cli_exc             \* the exception that left main_cli ("none" when none did)

pipeVars == <<now, fs, wlog, calls, run, entry, pc, file_path, pdf_path, output_dir,
              origin_file, is_img, submitted, remoteLog, uploaded_file, signed_url,
              response, pageIdx, imgIdx, page_images, all_markdowns, ret, exc>>

guiVars == <<file_path_var, api_key_var, buttons, progress, source_text, status,
             current_output_dir, last_dialog, afterQueue, wpc, w_args, workers, posted,
             actor>>

cliVars == <<cli_files, cli_auto, cli_i, cli_pc, cli_attempts, cli_reported, cli_prompts,
             cli_response, cli_exc>>

vars == <<pipeVars, guiVars, cliVars>>

(***************************************************************************)
(* Bounds of the model.                                                    *)
(***************************************************************************)
MaxTime == 1
MaxRuns == 2
MaxPages == 2

(***************************************************************************)
(* Paths and filesystem.                                                   *)
(***************************************************************************)
DirMark == <<"<DIR>">>
NoPerm == <<"<NOPERM>">>
NoneDir == <<"<None>">>
CallerDir == <<"out">>
NoPath == [dir |-> <<>>, name |-> <<>>]

PathOf(d, n) == [dir |-> d, name |-> n]

\* MarkdownPreviewApp.__init__ and create_widgets (lines 346-356, 403-509)
GuiInit ==
    /\ file_path_var = NoPath
    /\ api_key_var \in {"", "key"}
    /\ buttons = [process |-> "normal", browse |-> "normal", refresh |-> "normal",
                  preview |-> "normal", open_folder |-> "disabled"]
    /\ progress = FALSE
    /\ source_text = <<>>
    /\ status = <<"ready">>
    /\ current_output_dir = NoneDir
    /\ last_dialog = "none"
    /\ afterQueue = <<>>
    /\ wpc = "none"
    /\ w_args = NoPath
    /\ workers = 0
    /\ posted = <<>>
    /\ actor = "none"

\* no application window
GuiAbsent == GuiInit /\ api_key_var = ""

\* main_cli not running
CliAbsent ==
    /\ cli_files = <<>>
    /\ cli_auto = FALSE
    /\ cli_i = 1
    /\ cli_pc = "none"
    /\ cli_attempts = <<>>
    /\ cli_reported = <<>>
    /\ cli_prompts = <<>>
    /\ cli_response = "none"
    /\ cli_exc = "none"

OutputsRoot == PathOf(<<>>, <<"outputs">>)

Exists(f, p) == p \in DOMAIN f

IsFile(f, p) == p \in DOMAIN f /\ f[p] # DirMark

IsDir(f, p) == p \in DOMAIN f /\ f[p] = DirMark

WriteFile(f, p, c) == [q \in DOMAIN f \cup {p} |-> IF q = p THEN c ELSE f[q]]

MakeDirs(f, ps) == [q \in DOMAIN f \cup ps |-> IF q \in DOMAIN f THEN f[q] ELSE DirMark]

Logged(r, ps) == {[run |-> r, path |-> p] : p \in ps}

(***************************************************************************)
(* pathlib.Path(p).stem / .suffix and str.lower() on an extension.         *)
(* A name is a sequence of atoms; an atom starting a suffix is one of      *)
(* SuffixAtoms.                                                            *)
(***************************************************************************)
SuffixAtoms == {".jpg", ".jpeg", ".png", ".gif", ".bmp", ".tiff", ".tif", ".webp",
                ".PNG", ".JPG", ".pdf", ".txt", ".gz", ".tar"}

HasSuffix(n) == Len(n) > 1 /\ n[Len(n)] \in SuffixAtoms

Stem(n) == IF HasSuffix(n) THEN SubSeq(n, 1, Len(n) - 1) ELSE n

Suffix(n) == IF HasSuffix(n) THEN <<n[Len(n)]>> ELSE <<>>

Lower(a) == CASE a = ".PNG" -> ".png"
              [] a = ".JPG" -> ".jpg"
              [] a = "Q" -> "q"
              [] OTHER -> a

(***************************************************************************)
(* replace_images_in_markdown and str.replace.                             *)
(***************************************************************************)
RefPattern(img_name) == <<"![", img_name, "](", img_name, ")">>

RefReplacement(img_name, img_path) == <<"![", img_name, "](">> \o img_path \o <<")">>

RelImagePath(id) == <<"images/", id, ".png">>

RECURSIVE StrReplace(_, _, _)
StrReplace(s, old, new) ==
    IF Len(s) < Len(old) THEN s
    ELSE IF SubSeq(s, 1, Len(old)) = old
         THEN new \o StrReplace(SubSeq(s, Len(old) + 1, Len(s)), old, new)
         ELSE <<s[1]>> \o StrReplace(Tail(s), old, new)

RECURSIVE replace_images_in_markdown(_, _)
replace_images_in_markdown(markdown_str, images_dict) ==
    IF images_dict = <<>> THEN markdown_str
    ELSE replace_images_in_markdown(
             StrReplace(markdown_str,
                        RefPattern(images_dict[1][1]),
                        RefReplacement(images_dict[1][1], images_dict[1][2])),
             Tail(images_dict))

\* dict[key] = value on an insertion-ordered dict
DictSet(d, k, v) ==
    IF \E i \in 1..Len(d) : d[i][1] = k
    THEN [i \in 1..Len(d) |-> IF d[i][1] = k THEN <<k, v>> ELSE d[i]]
    ELSE Append(d, <<k, v>>)

\* faulty variant of JoinBlank: "\n".join
RECURSIVE JoinBlankSingleNewline(_)
JoinBlankSingleNewline(ms) ==
    IF ms = <<>> THEN <<>>
    ELSE IF Len(ms) = 1 THEN ms[1]
    ELSE ms[1] \o <<"\n">> \o JoinBlankSingleNewline(Tail(ms))

RECURSIVE JoinBlank(_)
JoinBlank(ms) ==
    IF ms = <<>> THEN <<>>
    ELSE IF Len(ms) = 1 THEN ms[1]
    ELSE ms[1] \o <<"\n\n">> \o JoinBlank(Tail(ms))

(***************************************************************************)
(* OCR responses.  An image is [id, image_base64]; image_base64 is the     *)
(* data-URI string given as the sequence of its comma-separated parts, so  *)
(* that image_base64.split(",") is the sequence itself.                    *)
(***************************************************************************)
Img(id, b64) == [id |-> id, image_base64 |-> b64]

Page(md, imgs) == [markdown |-> md, images |-> imgs]

UriA == <<"data:image/png;base64", "QQ==">>
UriB == <<"data:image/jpeg;base64", "Qg==">>
UriNoComma == <<"QQ==">>
UriBadPadding == <<"data:image/png;base64", "Q">>

\* base64.b64decode: raises binascii.Error on incorrect padding
B64Ok(a) == a \in {"QQ==", "Qg==", ""}

B64Decode(a) == CASE a = "QQ==" -> <<"A">>
                  [] a = "Qg==" -> <<"B">>
                  [] OTHER -> <<>>

\* open(img_path, "wb") fails when the id names a directory that does not exist
IdsWithSeparator == {"d/img3"}

PageA == Page(<<"A">>, <<Img("img1", UriA)>>)
PageB == Page(<<"B ", "![", "img1", "](", "img1", ")">>, <<>>)
PageTwoRefs == Page(<<"![", "img1", "](", "img1", ")", " x ", "![", "img2", "](", "img2", ")">>,
                    <<Img("img1", UriA), Img("img2", UriB)>>)
PageLiteral == Page(<<"see ", "![", "img2", "](", "images/", "img2", ".png", ")">>, <<>>)
PageBadPadding == Page(<<"D">>, <<Img("img2", UriBadPadding)>>)
PageDupId == Page(<<"![", "img1", "](", "img1", ")", "![", "img1", "](", "img1", ")">>,
                  <<Img("img1", UriA), Img("img1", UriB)>>)
PageAltDiffers == Page(<<"![", "img1", "](", "img2", ")">>, <<Img("img1", UriA)>>)
PageBadId == Page(<<"E">>, <<Img("img2", UriB), Img("d/img3", UriA)>>)
PageNoComma == Page(<<"F">>, <<Img("img1", UriNoComma)>>)
PagePlain == Page(<<"C">>, <<>>)

PageSet == {PageA, PageB, PageTwoRefs, PageLiteral, PageBadPadding, PageDupId,
            PageAltDiffers, PageBadId, PageNoComma, PagePlain}

RECURSIVE SeqsUpTo(_, _)
SeqsUpTo(S, n) ==
    IF n = 0 THEN {<<>>}
    ELSE LET shorter == SeqsUpTo(S, n - 1)
         IN shorter \cup {Append(q, x) : q \in shorter, x \in S}

AsmResponses == SeqsUpTo(PageSet, MaxPages)

\* responses the remote service returns in the pipeline specification
PipelineResponses == {<<PageA, PageB>>, <<PageBadPadding>>}

(***************************************************************************)
(* save_ocr_results, one action per loop step.                             *)
(***************************************************************************)
envVars == <<now>>
callVars == <<run, entry, file_path, pdf_path, origin_file, is_img, submitted, calls>>
remoteVars == <<remoteLog, uploaded_file, signed_url>>
saveVars == <<pageIdx, imgIdx, page_images, all_markdowns>>

ImagesDir(od) == PathOf(od, <<"images">>)

\* faulty variant of ImagePath: the image written to output_dir instead of images_dir
ImagePathOutsideImages(od, id) == PathOf(od, <<id, ".png">>)

ImagePath(od, id) == PathOf(od, <<"images", id, ".png">>)

CompletePath(od) == PathOf(od, <<"complete.md">>)

Raise(e) == pc' = "done" /\ exc' = e

\* lines 84-87: os.makedirs(images_dir, exist_ok=True); all_markdowns = []
Save_Mkdir ==
    /\ pc = "save_mkdir"
    /\ LET made == {PathOf(output_dir, <<>>), ImagesDir(output_dir)} \ DOMAIN fs
       IN /\ fs' = MakeDirs(fs, made)
          /\ wlog' = wlog \cup Logged(run, made)
    /\ all_markdowns' = <<>>
    /\ pageIdx' = 1
    /\ imgIdx' = 1
    /\ page_images' = <<>>
    /\ pc' = "save_loop"
    /\ UNCHANGED <<envVars, callVars, remoteVars, output_dir, response, ret, exc>>

\* lines 90-95: one iteration of "for img in page.images"
Save_Image ==
    /\ pc = "save_loop"
    /\ pageIdx <= Len(response)
    /\ imgIdx <= Len(response[pageIdx].images)
    /\ LET img == response[pageIdx].images[imgIdx]
           parts == img.image_base64
           img_path == ImagePath(output_dir, img.id)
       IN IF Len(parts) < 2
          THEN /\ Raise("IndexError")
               /\ UNCHANGED <<fs, wlog, imgIdx, page_images>>
          ELSE IF ~B64Ok(parts[2])
          THEN /\ Raise("binascii.Error")
               /\ UNCHANGED <<fs, wlog, imgIdx, page_images>>
          ELSE IF img.id \in IdsWithSeparator
          THEN /\ Raise("FileNotFoundError")
               /\ UNCHANGED <<fs, wlog, imgIdx, page_images>>
          ELSE /\ fs' = WriteFile(fs, img_path, B64Decode(parts[2]))
               /\ wlog' = wlog \cup Logged(run, {img_path})
               /\ page_images' = DictSet(page_images, img.id, RelImagePath(img.id))
               /\ imgIdx' = imgIdx + 1
               /\ UNCHANGED <<pc, exc>>
    /\ UNCHANGED <<envVars, callVars, remoteVars, output_dir, response, ret,
                   pageIdx, all_markdowns>>

\* faulty variant of Save_PageEnd: complete.md rewritten after every page
Save_PageEndWritesComplete ==
    /\ pc = "save_loop"
    /\ pageIdx <= Len(response)
    /\ imgIdx > Len(response[pageIdx].images)
    /\ all_markdowns' = Append(all_markdowns,
                               replace_images_in_markdown(response[pageIdx].markdown,
                                                          page_images))
    /\ fs' = WriteFile(fs, PathOf(output_dir, <<"complete.md">>), JoinBlank(all_markdowns'))
    /\ wlog' = wlog \cup Logged(run, {PathOf(output_dir, <<"complete.md">>)})
    /\ pageIdx' = pageIdx + 1
    /\ imgIdx' = 1
    /\ page_images' = <<>>
    /\ UNCHANGED <<envVars, callVars, remoteVars, output_dir, response, ret, exc, pc>>

\* lines 97-98, then the next iteration's "page_images = {}" (line 89)
Save_PageEnd ==
    /\ pc = "save_loop"
    /\ pageIdx <= Len(response)
    /\ imgIdx > Len(response[pageIdx].images)
    /\ all_markdowns' = Append(all_markdowns,
                               replace_images_in_markdown(response[pageIdx].markdown,
                                                          page_images))
    /\ pageIdx' = pageIdx + 1
    /\ imgIdx' = 1
    /\ page_images' = <<>>
    /\ UNCHANGED <<envVars, callVars, remoteVars, output_dir, response, ret, exc,
                   fs, wlog, pc>>

\* lines 100-104 (and the return through process_pdf, line 184)
Save_Write ==
    /\ pc = "save_loop"
    /\ pageIdx > Len(response)
    /\ LET markdown_content == JoinBlank(all_markdowns)
       IN /\ fs' = WriteFile(fs, CompletePath(output_dir), markdown_content)
          /\ ret' = markdown_content
    /\ wlog' = wlog \cup Logged(run, {CompletePath(output_dir)})
    /\ pc' = "done"
    /\ exc' = "none"
    /\ UNCHANGED <<envVars, callVars, remoteVars, saveVars, output_dir, response>>

(***************************************************************************)
(* Specification of the assembler alone: save_ocr_results called on any    *)
(* response of at most MaxPages pages, with a caller-made directory.       *)
(***************************************************************************)
InitAsm ==
    /\ now = 0
    /\ fs = [p \in {PathOf(CallerDir, <<>>)} |-> DirMark]
    /\ wlog = {}
    /\ calls = {}
    /\ run = 1
    /\ entry = "save_ocr_results"
    /\ pc = "save_mkdir"
    /\ file_path = NoPath
    /\ pdf_path = NoPath
    /\ output_dir = CallerDir
    /\ origin_file = NoPath
    /\ is_img = FALSE
    /\ submitted = <<>>
    /\ remoteLog = <<>>
    /\ uploaded_file = "none"
    /\ signed_url = "none"
    /\ response \in AsmResponses
    /\ pageIdx = 1
    /\ imgIdx = 1
    /\ page_images = <<>>
    /\ all_markdowns = <<>>
    /\ ret = <<>>
    /\ exc = "none"
    /\ GuiAbsent
    /\ CliAbsent

NextAsm ==
    \/ Save_Mkdir /\ UNCHANGED <<guiVars, cliVars>>
    \/ Save_Image /\ UNCHANGED <<guiVars, cliVars>>
    \/ Save_PageEnd /\ UNCHANGED <<guiVars, cliVars>>
    \/ Save_Write /\ UNCHANGED <<guiVars, cliVars>>

SpecAsm == InitAsm /\ [][NextAsm]_vars

(***************************************************************************)
(* create_output_directory.                                                *)
(***************************************************************************)
Digit(n) == <<"0", "1", "2", "3", "4", "5", "6", "7", "8", "9">>[n + 1]

\* faulty variant of Strftime: minute resolution, "%Y%m%d_%H%M"
StrftimeMinutes(t) == <<"20250101", "_", "0000">>

\* datetime.now().strftime("%Y%m%d_%H%M%S"): fixed width, second resolution; the
\* fields above the seconds do not change within the horizon of the model
Strftime(t) == <<"20250101", "_", "0000", Digit((t \div 10) % 6), Digit(t % 10)>>

\* faulty variant of OutputDirName: the stem left out of the name
OutputDirNameNoStem(t, p) == <<"outputs/">> \o Strftime(t)

\* os.path.join("outputs", f"{timestamp}_{source_file.stem}")
OutputDirName(t, p) == <<"outputs/">> \o Strftime(t) \o <<"_">> \o Stem(p.name)

\* the directories os.makedirs(d) has to create for directory d
DirsToMake(f, d) == {OutputsRoot, PathOf(d, <<>>)} \ DOMAIN f

\* the exception os.makedirs(d, exist_ok=exist_ok) raises, "none" when it succeeds
MakedirsError(f, d, exist_ok) ==
    IF IsFile(f, PathOf(d, <<>>)) THEN "FileExistsError"
    ELSE IF IsDir(f, PathOf(d, <<>>)) /\ ~exist_ok THEN "FileExistsError"
    ELSE "none"

\* lines 70-80, called by run r (entered through e) for path p; control goes to next
create_output_directory(r, e, p, next) ==
    LET d == OutputDirName(now, p)
    IN IF MakedirsError(fs, d, TRUE) # "none"
       THEN /\ Raise(MakedirsError(fs, d, TRUE))
            /\ UNCHANGED <<fs, wlog, calls, output_dir>>
       ELSE /\ fs' = MakeDirs(fs, DirsToMake(fs, d))
            /\ wlog' = wlog \cup Logged(r, DirsToMake(fs, d))
            /\ calls' = calls \cup {[run |-> r, entry |-> e, ts |-> now,
                                     stem |-> Stem(p.name), dir |-> d]}
            /\ output_dir' = d
            /\ pc' = next
            /\ exc' = "none"

(***************************************************************************)
(* is_image_file.                                                          *)
(***************************************************************************)
SUPPORTED_IMAGE_EXTENSIONS == {".jpg", ".jpeg", ".png", ".gif", ".bmp", ".tiff", ".tif", ".webp"}

\* formats PIL.Image.open identifies from a file's content
PilFormats == {"PNG", "JPEG", "GIF", "BMP", "TIFF", "WEBP", "PPM", "ICO"}

\* Image.open(file_path): the format it reports, or the exception it raises
ImageOpen(f, p) ==
    IF p \notin DOMAIN f THEN [exc |-> "FileNotFoundError", format |-> "None"]
    ELSE IF f[p] = DirMark THEN [exc |-> "IsADirectoryError", format |-> "None"]
    ELSE IF f[p] = NoPerm THEN [exc |-> "PermissionError", format |-> "None"]
    ELSE IF Len(f[p]) = 1 /\ f[p][1] \in PilFormats THEN [exc |-> "none", format |-> f[p][1]]
    ELSE [exc |-> "UnidentifiedImageError", format |-> "None"]

\* os.path.splitext(file_path.lower())[1]
LowerExt(p) == IF HasSuffix(p.name) THEN Lower(p.name[Len(p.name)]) ELSE ""

\* faulty variant of is_image_file: Image.open outside any try/except
is_image_file_NoTry(f, p) ==
    IF LowerExt(p) \notin SUPPORTED_IMAGE_EXTENSIONS
    THEN [ret |-> FALSE, exc |-> "none"]
    ELSE LET img == ImageOpen(f, p)
         IN IF img.exc # "none"
            THEN [ret |-> FALSE, exc |-> img.exc]
            ELSE [ret |-> img.format # "None", exc |-> "none"]

\* lines 107-117: [ret, exc]
is_image_file(f, p) ==
    IF LowerExt(p) \notin SUPPORTED_IMAGE_EXTENSIONS
    THEN [ret |-> FALSE, exc |-> "none"]
    ELSE LET img == ImageOpen(f, p)
         IN IF img.exc # "none"
            THEN [ret |-> FALSE, exc |-> "none"]
            ELSE [ret |-> img.format # "None", exc |-> "none"]

(***************************************************************************)
(* process_file and process_pdf, one action per step that can fail.        *)
(***************************************************************************)
FileIds == {"file-1", "file-2"}
Urls == {"https://signed/1", "https://signed/2"}

\* the exception shutil.copy2(src, dst) raises, "none" when it copies
CopyError(f, src) ==
    IF src \notin DOMAIN f THEN "FileNotFoundError"
    ELSE IF f[src] = DirMark THEN "IsADirectoryError"
    ELSE IF f[src] = NoPerm THEN "PermissionError"
    ELSE "none"

OriginPath(od, p) == PathOf(od, <<"origin">> \o Suffix(p.name))

ConvertedPath(od) == PathOf(od, <<"converted.pdf">>)

InputPdf == PathOf(<<>>, <<"a", ".pdf">>)
InputPng == PathOf(<<>>, <<"a", ".png">>)
InputFakePng == PathOf(<<>>, <<"b", ".png">>)
InputMissing == PathOf(<<>>, <<"c", ".pdf">>)
InputDirectory == PathOf(<<>>, <<"d">>)

CallPaths == {InputPdf, InputPng, InputFakePng, InputMissing, InputDirectory}

InitialFiles ==
    (InputPdf :> <<"PDF">>) @@ (InputPng :> <<"PNG">>) @@ (InputFakePng :> <<"TEXT">>)
        @@ (InputDirectory :> DirMark)

Idle == pc \in {"idle", "done"}

\* the locals of a fresh call
FreshCall ==
    /\ run' = run + 1
    /\ remoteLog' = <<>>
    /\ uploaded_file' = "none"
    /\ signed_url' = "none"
    /\ response' = <<>>
    /\ pageIdx' = 1
    /\ imgIdx' = 1
    /\ page_images' = <<>>
    /\ all_markdowns' = <<>>
    /\ ret' = <<>>
    /\ origin_file' = NoPath
    /\ is_img' = FALSE

\* a caller invokes process_file(p, api_key); line 143
CallProcessFile(p) ==
    /\ Idle
    /\ run < MaxRuns
    /\ FreshCall
    /\ entry' = "process_file"
    /\ file_path' = p
    /\ pdf_path' = NoPath
    /\ submitted' = <<>>
    /\ create_output_directory(run + 1, "process_file", p, "pf_copy")
    /\ UNCHANGED now

\* lines 145-146
PF_Copy ==
    /\ pc = "pf_copy"
    /\ origin_file' = OriginPath(output_dir, file_path)
    /\ IF CopyError(fs, file_path) # "none"
       THEN /\ Raise(CopyError(fs, file_path))
            /\ UNCHANGED <<fs, wlog>>
       ELSE /\ fs' = WriteFile(fs, OriginPath(output_dir, file_path), fs[file_path])
            /\ wlog' = wlog \cup Logged(run, {OriginPath(output_dir, file_path)})
            /\ pc' = "pf_classify"
            /\ exc' = "none"
    /\ UNCHANGED <<envVars, calls, run, entry, file_path, pdf_path, is_img, submitted,
                   remoteVars, saveVars, output_dir, response, ret>>

\* line 148: the call of is_image_file
PF_Classify ==
    /\ pc = "pf_classify"
    /\ LET r == is_image_file(fs, file_path)
       IN IF r.exc # "none"
          THEN Raise(r.exc) /\ UNCHANGED is_img
          ELSE is_img' = r.ret /\ pc' = "pf_branch" /\ exc' = "none"
    /\ UNCHANGED <<envVars, calls, run, entry, file_path, pdf_path, origin_file, submitted,
                   remoteVars, saveVars, output_dir, response, ret, fs, wlog>>

\* lines 149-150 and 129-138: convert_image_to_pdf, then the call of process_pdf (line 154)
PF_Convert ==
    /\ pc = "pf_branch"
    /\ is_img
    /\ wlog' = wlog \cup Logged(run, {ConvertedPath(output_dir)})
    /\ \E converts \in BOOLEAN :
          IF converts
          THEN /\ fs' = WriteFile(fs, ConvertedPath(output_dir), <<"PDF">>)
               /\ pdf_path' = ConvertedPath(output_dir)
               /\ submitted' = Append(submitted, ConvertedPath(output_dir))
               /\ pc' = "pp_entry"
               /\ exc' = "none"
          ELSE /\ fs' = WriteFile(fs, ConvertedPath(output_dir), <<>>)
               /\ Raise("Exception")
               /\ UNCHANGED <<pdf_path, submitted>>
    /\ UNCHANGED <<envVars, calls, run, entry, file_path, origin_file, is_img,
                   remoteVars, saveVars, output_dir, response, ret>>

\* faulty variant of PF_UseOrigin: the caller's file submitted instead of the copy
PF_UseOriginal ==
    /\ pc = "pf_branch"
    /\ ~is_img
    /\ pdf_path' = file_path
    /\ submitted' = Append(submitted, file_path)
    /\ pc' = "pp_entry"
    /\ UNCHANGED <<envVars, calls, run, entry, file_path, origin_file, is_img,
                   remoteVars, saveVars, output_dir, response, ret, exc, fs, wlog>>

\* lines 151-152, then the call of process_pdf (line 154)
PF_UseOrigin ==
    /\ pc = "pf_branch"
    /\ ~is_img
    /\ pdf_path' = origin_file
    /\ submitted' = Append(submitted, origin_file)
    /\ pc' = "pp_entry"
    /\ UNCHANGED <<envVars, calls, run, entry, file_path, origin_file, is_img,
                   remoteVars, saveVars, output_dir, response, ret, exc, fs, wlog>>

\* a caller invokes process_pdf(p, api_key, output_dir=od) directly
CallProcessPdf(p, od) ==
    /\ Idle
    /\ run < MaxRuns
    /\ FreshCall
    /\ entry' = "process_pdf"
    /\ file_path' = NoPath
    /\ pdf_path' = p
    /\ submitted' = <<p>>
    /\ output_dir' = od
    /\ pc' = "pp_entry"
    /\ exc' = "none"
    /\ UNCHANGED <<now, fs, wlog, calls>>

\* lines 159-160
PP_CreateDir ==
    /\ pc = "pp_entry"
    /\ output_dir = NoneDir
    /\ create_output_directory(run, entry, pdf_path, "pp_copy")
    /\ UNCHANGED <<envVars, run, entry, file_path, pdf_path, origin_file, is_img, submitted,
                   remoteVars, saveVars, response, ret>>

\* lines 161-162
PP_Copy ==
    /\ pc = "pp_copy"
    /\ origin_file' = OriginPath(output_dir, pdf_path)
    /\ IF CopyError(fs, pdf_path) # "none"
       THEN /\ Raise(CopyError(fs, pdf_path))
            /\ UNCHANGED <<fs, wlog>>
       ELSE /\ fs' = WriteFile(fs, OriginPath(output_dir, pdf_path), fs[pdf_path])
            /\ wlog' = wlog \cup Logged(run, {OriginPath(output_dir, pdf_path)})
            /\ pc' = "pp_validate"
            /\ exc' = "none"
    /\ UNCHANGED <<envVars, calls, run, entry, file_path, pdf_path, is_img, submitted,
                   remoteVars, saveVars, output_dir, response, ret>>

\* lines 164-168
PP_Validate ==
    /\ \/ pc = "pp_validate"
       \/ pc = "pp_entry" /\ output_dir # NoneDir
    /\ IF IsFile(fs, pdf_path)
       THEN pc' = "pp_upload" /\ exc' = "none"
       ELSE Raise("FileNotFoundError")
    /\ UNCHANGED <<envVars, callVars, remoteVars, saveVars, output_dir, response, ret,
                   fs, wlog>>

Issued(op, arg, res) == [op |-> op, arg |-> arg, res |-> res]

\* lines 170-176
PP_Upload ==
    /\ pc = "pp_upload"
    /\ IF fs[pdf_path] = NoPerm
       THEN /\ Raise("PermissionError")
            /\ UNCHANGED <<remoteLog, uploaded_file>>
       ELSE \/ \E id \in FileIds :
                 /\ remoteLog' = Append(remoteLog, Issued("files.upload", pdf_path.name, id))
                 /\ uploaded_file' = id
                 /\ pc' = "pp_sign"
                 /\ exc' = "none"
            \/ /\ remoteLog' = Append(remoteLog, Issued("files.upload", pdf_path.name, "error"))
               /\ Raise("SDKError")
               /\ UNCHANGED uploaded_file
    /\ UNCHANGED <<envVars, callVars, signed_url, saveVars, output_dir, response, ret,
                   fs, wlog>>

\* faulty variant of PP_SignedUrl: the URL requested for a fixed file id
PP_SignedUrlFixedId ==
    /\ pc = "pp_sign"
    /\ \/ \E url \in Urls :
             /\ remoteLog' = Append(remoteLog, Issued("files.get_signed_url", <<"file-1">>, url))
             /\ signed_url' = url
             /\ pc' = "pp_ocr"
             /\ exc' = "none"
       \/ /\ remoteLog' = Append(remoteLog, Issued("files.get_signed_url", <<"file-1">>, "error"))
          /\ Raise("SDKError")
          /\ UNCHANGED signed_url
    /\ UNCHANGED <<envVars, callVars, uploaded_file, saveVars, output_dir, response, ret,
                   fs, wlog>>

\* line 178
PP_SignedUrl ==
    /\ pc = "pp_sign"
    /\ \/ \E url \in Urls :
             /\ remoteLog' = Append(remoteLog,
                                    Issued("files.get_signed_url", <<uploaded_file>>, url))
             /\ signed_url' = url
             /\ pc' = "pp_ocr"
             /\ exc' = "none"
       \/ /\ remoteLog' = Append(remoteLog,
                                 Issued("files.get_signed_url", <<uploaded_file>>, "error"))
          /\ Raise("SDKError")
          /\ UNCHANGED signed_url
    /\ UNCHANGED <<envVars, callVars, uploaded_file, saveVars, output_dir, response, ret,
                   fs, wlog>>

\* faulty variant of PP_Ocr: a failed job treated as an empty response
PP_OcrSwallowsError ==
    /\ pc = "pp_ocr"
    /\ \/ \E resp \in PipelineResponses :
             /\ remoteLog' = Append(remoteLog, Issued("ocr.process", <<signed_url>>, "response"))
             /\ response' = resp
       \/ /\ remoteLog' = Append(remoteLog, Issued("ocr.process", <<signed_url>>, "error"))
          /\ response' = <<>>
    /\ pc' = "save_mkdir"
    /\ exc' = "none"
    /\ UNCHANGED <<envVars, callVars, uploaded_file, signed_url, saveVars, output_dir, ret,
                   fs, wlog>>

\* lines 179-183: ocr.process, then the call of save_ocr_results
PP_Ocr ==
    /\ pc = "pp_ocr"
    /\ \/ \E resp \in PipelineResponses :
             /\ remoteLog' = Append(remoteLog, Issued("ocr.process", <<signed_url>>, "response"))
             /\ response' = resp
             /\ pc' = "save_mkdir"
             /\ exc' = "none"
       \/ /\ remoteLog' = Append(remoteLog, Issued("ocr.process", <<signed_url>>, "error"))
          /\ Raise("SDKError")
          /\ UNCHANGED response
    /\ UNCHANGED <<envVars, callVars, uploaded_file, signed_url, saveVars, output_dir, ret,
                   fs, wlog>>

\* the wall clock advances
Tick ==
    /\ now < MaxTime
    /\ now' = now + 1
    /\ UNCHANGED <<fs, wlog, calls, run, entry, pc, file_path, pdf_path, output_dir,
                   origin_file, is_img, submitted, remoteLog, uploaded_file, signed_url,
                   response, pageIdx, imgIdx, page_images, all_markdowns, ret, exc>>

\* the process before any call: the files on disk, no run yet
PipeInit ==
    /\ now = 0
    /\ fs = InitialFiles
    /\ wlog = {}
    /\ calls = {}
    /\ run = 0
    /\ entry = "none"
    /\ pc = "idle"
    /\ file_path = NoPath
    /\ pdf_path = NoPath
    /\ output_dir = NoneDir
    /\ origin_file = NoPath
    /\ is_img = FALSE
    /\ submitted = <<>>
    /\ remoteLog = <<>>
    /\ uploaded_file = "none"
    /\ signed_url = "none"
    /\ response = <<>>
    /\ pageIdx = 1
    /\ imgIdx = 1
    /\ page_images = <<>>
    /\ all_markdowns = <<>>
    /\ ret = <<>>
    /\ exc = "none"

Init ==
    /\ PipeInit
    /\ GuiAbsent
    /\ CliAbsent

Next ==
    \/ Tick /\ UNCHANGED <<guiVars, cliVars>>
    \/ \E p \in CallPaths : CallProcessFile(p) /\ UNCHANGED <<guiVars, cliVars>>
    \/ \E p \in CallPaths, od \in {NoneDir, CallerDir} : CallProcessPdf(p, od) /\ UNCHANGED <<guiVars, cliVars>>
    \/ PF_Copy /\ UNCHANGED <<guiVars, cliVars>>
    \/ PF_Classify /\ UNCHANGED <<guiVars, cliVars>>
    \/ PF_Convert /\ UNCHANGED <<guiVars, cliVars>>
    \/ PF_UseOrigin /\ UNCHANGED <<guiVars, cliVars>>
    \/ PP_CreateDir /\ UNCHANGED <<guiVars, cliVars>>
    \/ PP_Copy /\ UNCHANGED <<guiVars, cliVars>>
    \/ PP_Validate /\ UNCHANGED <<guiVars, cliVars>>
    \/ PP_Upload /\ UNCHANGED <<guiVars, cliVars>>
    \/ PP_SignedUrl /\ UNCHANGED <<guiVars, cliVars>>
    \/ PP_Ocr /\ UNCHANGED <<guiVars, cliVars>>
    \/ Save_Mkdir /\ UNCHANGED <<guiVars, cliVars>>
    \/ Save_Image /\ UNCHANGED <<guiVars, cliVars>>
    \/ Save_PageEnd /\ UNCHANGED <<guiVars, cliVars>>
    \/ Save_Write /\ UNCHANGED <<guiVars, cliVars>>

Spec == Init /\ [][Next]_vars

(***************************************************************************)
(* MarkdownPreviewApp: the Tk main thread, whose actions are named UI_,    *)
(* and the worker thread started by the process button, whose actions are  *)
(* named W_ together with the pipeline steps of its process_file call.     *)
(* Callbacks posted with self.after run on the main thread in the order    *)
(* they were posted.                                                       *)
(***************************************************************************)
GuiPaths == {InputPdf, InputPng, InputMissing}

\* what the user types into the API key entry
ApiKeys == {"key"}

FileKind(p) == IF is_image_file(fs, p).ret THEN "image" ELSE "pdf"

uiHistory == <<wpc, w_args, workers, posted>>

\* a step of the main thread that posts nothing and starts nothing
UiTurn ==
    /\ actor' = "ui"
    /\ UNCHANGED <<pipeVars, cliVars, afterQueue, uiHistory>>

\* the user edits the API key entry (line 410)
UI_TypeApiKey(k) ==
    /\ api_key_var' = k
    /\ UiTurn
    /\ UNCHANGED <<file_path_var, buttons, progress, source_text, status,
                   current_output_dir, last_dialog>>

\* lines 574-597; a cancelled dialog returns "" and changes nothing
UI_SelectFile(p) ==
    /\ buttons.browse = "normal"
    /\ file_path_var' = p
    /\ status' = <<"selected", FileKind(p), p.name>>
    /\ UiTurn
    /\ UNCHANGED <<api_key_var, buttons, progress, source_text, current_output_dir,
                   last_dialog>>

\* faulty variant of UI_ProcessFile: the process button stays enabled
UI_ProcessFileKeepsButton ==
    /\ buttons.process = "normal"
    /\ actor' = "ui"
    /\ IF file_path_var = NoPath
       THEN /\ last_dialog' = "error"
            /\ UNCHANGED <<buttons, progress, status, uiHistory>>
       ELSE IF api_key_var = ""
       THEN /\ last_dialog' = "error"
            /\ UNCHANGED <<buttons, progress, status, uiHistory>>
       ELSE /\ run + workers < MaxRuns
            /\ buttons' = [buttons EXCEPT !.browse = "disabled", !.refresh = "disabled",
                                          !.preview = "disabled",
                                          !.open_folder = "disabled"]
            /\ progress' = TRUE
            /\ status' = <<"processing", FileKind(file_path_var), file_path_var.name>>
            /\ workers' = workers + 1
            /\ wpc' = "start"
            /\ w_args' = file_path_var
            /\ posted' = <<>>
            /\ UNCHANGED last_dialog
    /\ UNCHANGED <<pipeVars, cliVars, afterQueue, file_path_var, api_key_var, source_text,
                   current_output_dir>>

\* lines 599-631: the process button's command
UI_ProcessFile ==
    /\ buttons.process = "normal"
    /\ actor' = "ui"
    /\ IF file_path_var = NoPath
       THEN /\ last_dialog' = "error"
            /\ UNCHANGED <<buttons, progress, status, uiHistory>>
       ELSE IF api_key_var = ""
       THEN /\ last_dialog' = "error"
            /\ UNCHANGED <<buttons, progress, status, uiHistory>>
       ELSE /\ run + workers < MaxRuns
            /\ buttons' = [b \in DOMAIN buttons |-> "disabled"]
            /\ progress' = TRUE
            /\ status' = <<"processing", FileKind(file_path_var), file_path_var.name>>
            /\ workers' = workers + 1
            /\ wpc' = "start"
            /\ w_args' = file_path_var
            /\ posted' = <<>>
            /\ UNCHANGED last_dialog
    /\ UNCHANGED <<pipeVars, cliVars, afterQueue, file_path_var, api_key_var, source_text,
                   current_output_dir>>

uiState == <<file_path_var, api_key_var, buttons, progress, source_text, status,
             current_output_dir, last_dialog>>

\* the worker thread runs a step of process_file (line 637)
WorkerRuns ==
    /\ wpc = "pipeline"
    /\ actor' = "worker"
    /\ UNCHANGED <<uiState, afterQueue, uiHistory, cliVars>>

\* line 637: the worker thread enters process_file(file_path, api_key)
W_Call ==
    /\ wpc = "start"
    /\ CallProcessFile(w_args)
    /\ wpc' = "pipeline"
    /\ actor' = "worker"
    /\ UNCHANGED <<uiState, afterQueue, w_args, workers, posted, cliVars>>

\* lines 637-638: process_file returned; the worker stores the output directory
W_SetOutputDir ==
    /\ wpc = "pipeline"
    /\ pc = "done" /\ exc = "none"
    /\ current_output_dir' = output_dir
    /\ wpc' = "post_update"
    /\ actor' = "worker"
    /\ UNCHANGED <<pipeVars, cliVars, file_path_var, api_key_var, buttons, progress,
                   source_text, status, last_dialog, afterQueue,
                   w_args, workers, posted>>

Post(fn, arg) ==
    /\ afterQueue' = Append(afterQueue, [fn |-> fn, arg |-> arg])
    /\ posted' = Append(posted, fn)
    /\ actor' = "worker"
    /\ UNCHANGED <<pipeVars, cliVars, uiState, w_args>>

\* line 641
W_PostUpdate ==
    /\ wpc = "post_update"
    /\ Post("update", ret)
    /\ wpc' = "finally"
    /\ UNCHANGED workers

\* lines 642-645: process_file raised
W_PostError ==
    /\ wpc = "pipeline"
    /\ pc = "done" /\ exc # "none"
    /\ Post("error", <<exc>>)
    /\ wpc' = "finally"
    /\ UNCHANGED workers

\* faulty variant of W_PostReset: the reset is skipped after a failure
W_PostResetOnSuccessOnly ==
    /\ wpc = "finally"
    /\ IF exc = "none"
       THEN Post("reset", <<>>)
       ELSE /\ actor' = "worker"
            /\ UNCHANGED <<pipeVars, cliVars, uiState, w_args, afterQueue, posted>>
    /\ wpc' = "none"
    /\ workers' = workers - 1

\* lines 646-648: the last statement of the worker thread
W_PostReset ==
    /\ wpc = "finally"
    /\ Post("reset", <<>>)
    /\ wpc' = "none"
    /\ workers' = workers - 1

\* the main loop runs the oldest posted callback
Callback(fn) ==
    /\ afterQueue # <<>>
    /\ Head(afterQueue).fn = fn
    /\ afterQueue' = Tail(afterQueue)
    /\ actor' = "ui"
    /\ UNCHANGED <<pipeVars, cliVars, uiHistory>>

\* lines 686-708: both branches end by setting the status line
refresh_preview == <<"preview">>

\* lines 650-673
UI_UpdateWithResults ==
    /\ Callback("update")
    /\ source_text' = Head(afterQueue).arg
    /\ status' = refresh_preview
    /\ buttons' = [buttons EXCEPT !.refresh = "normal", !.preview = "normal",
                                  !.open_folder = "normal"]
    /\ UNCHANGED <<file_path_var, api_key_var, progress, current_output_dir, last_dialog>>

\* line 645: the posted lambda shows the error dialog
UI_ShowError ==
    /\ Callback("error")
    /\ last_dialog' = "processing error"
    /\ UNCHANGED <<file_path_var, api_key_var, buttons, progress, source_text, status,
                   current_output_dir>>

\* lines 675-684
UI_ResetState ==
    /\ Callback("reset")
    /\ buttons' = [buttons EXCEPT !.process = "normal", !.browse = "normal",
                                  !.refresh = "normal", !.preview = "normal"]
    /\ progress' = FALSE
    /\ UNCHANGED <<file_path_var, api_key_var, source_text, status, current_output_dir,
                   last_dialog>>

\* the refresh button's command, lines 686-708
UI_RefreshPreview ==
    /\ buttons.refresh = "normal"
    /\ status' = refresh_preview
    /\ UiTurn
    /\ UNCHANGED <<file_path_var, api_key_var, buttons, progress, source_text,
                   current_output_dir, last_dialog>>

\* lines 710-725; the file manager it launches is outside the program
UI_OpenOutputFolder ==
    /\ buttons.open_folder = "normal"
    /\ IF current_output_dir = NoneDir \/ ~Exists(fs, PathOf(current_output_dir, <<>>))
       THEN last_dialog' = "error"
       ELSE UNCHANGED last_dialog
    /\ UiTurn
    /\ UNCHANGED <<file_path_var, api_key_var, buttons, progress, source_text, status,
                   current_output_dir>>

InitGui ==
    /\ PipeInit
    /\ GuiInit
    /\ CliAbsent

WorkerNext ==
    \/ W_Call
    \/ PF_Copy /\ WorkerRuns
    \/ PF_Classify /\ WorkerRuns
    \/ PF_Convert /\ WorkerRuns
    \/ PF_UseOrigin /\ WorkerRuns
    \/ PP_Validate /\ WorkerRuns
    \/ PP_Upload /\ WorkerRuns
    \/ PP_SignedUrl /\ WorkerRuns
    \/ PP_Ocr /\ WorkerRuns
    \/ Save_Mkdir /\ WorkerRuns
    \/ Save_Image /\ WorkerRuns
    \/ Save_PageEnd /\ WorkerRuns
    \/ Save_Write /\ WorkerRuns
    \/ W_SetOutputDir
    \/ W_PostUpdate
    \/ W_PostError
    \/ W_PostReset

CallbackNext == UI_UpdateWithResults \/ UI_ShowError \/ UI_ResetState

\* A run reads the clock once, on entry to process_file (line 75), so the clock
\* advancing during a run shows as a tick after the run.
NextGui ==
    \/ Tick /\ wpc = "none" /\ UNCHANGED <<guiVars, cliVars>>
    \/ \E k \in ApiKeys : UI_TypeApiKey(k)
    \/ \E p \in GuiPaths : UI_SelectFile(p)
    \/ UI_ProcessFile
    \/ UI_RefreshPreview
    \/ UI_OpenOutputFolder
    \/ WorkerNext
    \/ CallbackNext

SpecGui == InitGui /\ [][NextGui]_vars

\* the scheduler keeps running the worker thread and the main loop keeps running
\* posted callbacks
SpecGuiLive == SpecGui /\ WF_vars(WorkerNext) /\ WF_vars(CallbackNext)

(***************************************************************************)
(* main_cli: the batch loop over args.files, lines 800-822, entered with   *)
(* an API key.                                                             *)
(***************************************************************************)
CliPaths == {InputPdf, InputMissing}

\* what input() returns; on a closed standard input it raises EOFError instead
Answers == {"", "q", "Q"}

InputOutcomes == Answers \cup {"EOFError"}

IsLast == cli_i = Len(cli_files)

\* the pipeline steps of the process_file call of line 807
CliRuns ==
    /\ cli_pc = "pipeline"
    /\ UNCHANGED <<guiVars, cliVars>>

\* lines 804-807: the next file is handed to process_file
Cli_Attempt ==
    /\ cli_pc = "loop"
    /\ cli_i <= Len(cli_files)
    /\ CallProcessFile(cli_files[cli_i])
    /\ cli_attempts' = Append(cli_attempts, cli_i)
    /\ cli_pc' = "pipeline"
    /\ UNCHANGED <<guiVars, cli_files, cli_auto, cli_i, cli_reported, cli_prompts,
                   cli_response, cli_exc>>

\* lines 808-815: process_file returned; the prompt is read inside the try block
Cli_Success ==
    /\ cli_pc = "pipeline"
    /\ pc = "done" /\ exc = "none"
    /\ IF ~IsLast /\ ~cli_auto
       THEN /\ cli_prompts' = Append(cli_prompts, cli_i)
            /\ \E a \in InputOutcomes :
                  IF a = "EOFError"
                  THEN /\ cli_pc' = "except"
                       /\ UNCHANGED <<cli_i, cli_response>>
                  ELSE /\ cli_response' = a
                       /\ IF Lower(a) = "q"
                          THEN cli_pc' = "end" /\ UNCHANGED cli_i
                          ELSE cli_pc' = "loop" /\ cli_i' = cli_i + 1
       ELSE /\ cli_pc' = "loop"
            /\ cli_i' = cli_i + 1
            /\ UNCHANGED <<cli_prompts, cli_response>>
    /\ UNCHANGED <<pipeVars, guiVars, cli_files, cli_auto, cli_attempts, cli_reported,
                   cli_exc>>

\* lines 816-822: an Exception raised in the try block is reported; the prompt read
\* here is outside any try block
Cli_Except ==
    /\ \/ cli_pc = "pipeline" /\ pc = "done" /\ exc # "none"
       \/ cli_pc = "except"
    /\ cli_reported' = Append(cli_reported,
                              [i |-> cli_i,
                               e |-> IF cli_pc = "except" THEN "EOFError" ELSE exc])
    /\ IF ~cli_auto /\ ~IsLast
       THEN /\ cli_prompts' = Append(cli_prompts, cli_i)
            /\ \E a \in InputOutcomes :
                  IF a = "EOFError"
                  THEN /\ cli_pc' = "end"
                       /\ cli_exc' = "EOFError"
                       /\ UNCHANGED <<cli_i, cli_response>>
                  ELSE /\ cli_response' = a
                       /\ UNCHANGED cli_exc
                       /\ IF Lower(a) = "q"
                          THEN cli_pc' = "end" /\ UNCHANGED cli_i
                          ELSE cli_pc' = "loop" /\ cli_i' = cli_i + 1
       ELSE /\ cli_pc' = "loop"
            /\ cli_i' = cli_i + 1
            /\ UNCHANGED <<cli_prompts, cli_response, cli_exc>>
    /\ UNCHANGED <<pipeVars, guiVars, cli_files, cli_auto, cli_attempts>>

\* line 804: the loop is exhausted
Cli_End ==
    /\ cli_pc = "loop"
    /\ cli_i > Len(cli_files)
    /\ cli_pc' = "end"
    /\ UNCHANGED <<pipeVars, guiVars, cli_files, cli_auto, cli_i, cli_attempts,
                   cli_reported, cli_prompts, cli_response, cli_exc>>

InitCli ==
    /\ PipeInit
    /\ GuiAbsent
    /\ cli_files \in SeqsUpTo(CliPaths, MaxRuns) \ {<<>>}
    /\ cli_auto \in BOOLEAN
    /\ cli_i = 1
    /\ cli_pc = "loop"
    /\ cli_attempts = <<>>
    /\ cli_reported = <<>>
    /\ cli_prompts = <<>>
    /\ cli_response = "none"
    /\ cli_exc = "none"

NextCli ==
    \/ Tick /\ UNCHANGED <<guiVars, cliVars>>
    \/ Cli_Attempt
    \/ PF_Copy /\ CliRuns
    \/ PF_Classify /\ CliRuns
    \/ PF_UseOrigin /\ CliRuns
    \/ PP_Validate /\ CliRuns
    \/ PP_Upload /\ CliRuns
    \/ PP_SignedUrl /\ CliRuns
    \/ PP_Ocr /\ CliRuns
    \/ Save_Mkdir /\ CliRuns
    \/ Save_Image /\ CliRuns
    \/ Save_PageEnd /\ CliRuns
    \/ Save_Write /\ CliRuns
    \/ Cli_Success
    \/ Cli_Except
    \/ Cli_End

SpecCli == InitCli /\ [][NextCli]_vars

(***************************************************************************)
(* Helpers of the assembler's properties.                                  *)
(***************************************************************************)
Returned == pc = "done" /\ exc = "none"

Occurs(pat, s) == \E i \in 1..(Len(s) - Len(pat) + 1) : SubSeq(s, i, i + Len(pat) - 1) = pat

ImageIds(pg) == {pg.images[k].id : k \in 1..Len(pg.images)}

\* the text of a page with every reference ![id](id) to one of ids pointed at images/id.png,
\* found by one left-to-right scan
RECURSIVE RewriteRefs(_, _)
RewriteRefs(s, ids) ==
    IF s = <<>> THEN <<>>
    ELSE IF Len(s) >= 5 /\ s[2] \in ids /\ SubSeq(s, 1, 5) = <<"![", s[2], "](", s[2], ")">>
         THEN <<"![", s[2], "](", "images/", s[2], ".png", ")">>
              \o RewriteRefs(SubSeq(s, 6, Len(s)), ids)
         ELSE <<s[1]>> \o RewriteRefs(Tail(s), ids)

\* pages i..Len(resp) of resp, each through f, with one "\n\n" between consecutive pages
RECURSIVE PagesFrom(_, _, _)
PagesFrom(resp, i, rewrite) ==
    IF i > Len(resp) THEN <<>>
    ELSE (IF rewrite THEN RewriteRefs(resp[i].markdown, ImageIds(resp[i]))
                     ELSE resp[i].markdown)
         \o (IF i < Len(resp) THEN <<"\n\n">> ELSE <<>>)
         \o PagesFrom(resp, i + 1, rewrite)

CompleteMd == fs[CompletePath(output_dir)]

\* C4: when save_ocr_results returns, the returned text and complete.md are the
\* rewritten page texts in page order, each once, separated by exactly one "\n\n";
\* with no image in the response that is the join of the original page texts.
C4_AssembledInPageOrder ==
    Returned =>
        /\ CompletePath(output_dir) \in DOMAIN fs
        /\ CompleteMd = ret
        /\ ret = PagesFrom(response, 1, TRUE)
        /\ Len(all_markdowns) = Len(response)
        /\ (\A i \in 1..Len(response) : response[i].images = <<>>)
               => ret = PagesFrom(response, 1, FALSE)

C4_Witness ==
    /\ Returned
    /\ entry = "save_ocr_results"
    /\ Len(response) = 2
    /\ ret # PagesFrom(response, 1, FALSE)
    /\ Occurs(<<"\n\n">>, ret)

\* C5 as claimed: when save_ocr_results returns, every ![id](images/id.png) in
\* complete.md has its file images/id.png in the output directory.
C5_NoDanglingReference ==
    Returned =>
        \A i \in 1..(Len(CompleteMd) - 6) :
            SubSeq(CompleteMd, i, i + 6)
                = <<"![", CompleteMd[i + 1], "](", "images/", CompleteMd[i + 1], ".png", ")">>
            => PathOf(output_dir, <<"images", CompleteMd[i + 1], ".png">>) \in DOMAIN fs

\* C5 amended: when save_ocr_results returns, every ![id](images/id.png) in complete.md
\* that is not already verbatim in a page text of the response (every reference the
\* assembler produced) has its file images/id.png in the output directory.
C5_NoDanglingRewrittenReference ==
    Returned =>
        \A i \in 1..(Len(CompleteMd) - 6) :
            LET ref == <<"![", CompleteMd[i + 1], "](", "images/", CompleteMd[i + 1], ".png", ")">>
            IN (/\ SubSeq(CompleteMd, i, i + 6) = ref
                /\ \A k \in 1..Len(response) : ~Occurs(ref, response[k].markdown))
               => IsFile(fs, PathOf(output_dir, <<"images", CompleteMd[i + 1], ".png">>))

C5_Witness ==
    /\ Returned
    /\ entry = "save_ocr_results"
    /\ Occurs(<<"![", "img2", "](", "images/", "img2", ".png", ")">>, CompleteMd)
    /\ \A k \in 1..Len(response) :
           ~Occurs(<<"![", "img2", "](", "images/", "img2", ".png", ")">>, response[k].markdown)

\* C6 as claimed: for page 1 = "A" carrying img1 and page 2 = "B ![img1](img1)",
\* complete.md is "A\n\nB ![img1](images/img1.png)".
C6_CrossPageReferenceRewritten ==
    (Returned /\ response = <<PageA, PageB>>)
        => CompleteMd = <<"A", "\n\n", "B ", "![", "img1", "](", "images/", "img1", ".png", ")">>

(***************************************************************************)
(* Specification of the classifier alone: is_image_file called on a file   *)
(* of any extension and any content, present or not.                       *)
(***************************************************************************)
ClsNames == {<<"x">>} \cup {<<"x", e>> : e \in SuffixAtoms}

ClsContents == {<<f>> : f \in PilFormats} \cup {<<"TEXT">>, <<"PDF">>, NoPerm, DirMark}

InitCls ==
    /\ now = 0
    /\ \E n \in ClsNames :
          /\ file_path = PathOf(<<>>, n)
          /\ \/ fs = [q \in {} |-> <<>>]
             \/ \E c \in ClsContents : fs = [q \in {PathOf(<<>>, n)} |-> c]
    /\ wlog = {}
    /\ calls = {}
    /\ run = 1
    /\ entry = "is_image_file"
    /\ pc = "pf_classify"
    /\ pdf_path = NoPath
    /\ output_dir = NoneDir
    /\ origin_file = NoPath
    /\ is_img = FALSE
    /\ submitted = <<>>
    /\ remoteLog = <<>>
    /\ uploaded_file = "none"
    /\ signed_url = "none"
    /\ response = <<>>
    /\ pageIdx = 1
    /\ imgIdx = 1
    /\ page_images = <<>>
    /\ all_markdowns = <<>>
    /\ ret = <<>>
    /\ exc = "none"
    /\ GuiAbsent
    /\ CliAbsent

NextCls == PF_Classify /\ UNCHANGED <<guiVars, cliVars>>

SpecCls == InitCls /\ [][NextCls]_vars

(***************************************************************************)
(* Properties of process_pdf, process_file and create_output_directory.    *)
(***************************************************************************)
MyWrites == {w.path : w \in {x \in wlog : x.run = run}}

IsAssemblyArtifact(p) ==
    p.name = <<"complete.md">> \/ (Len(p.name) >= 1 /\ p.name[1] = "images")

\* C1 as claimed: a call of process_pdf whose path is not an existing file issues no
\* remote operation and ends by raising FileNotFoundError, with or without output_dir.
C1_MissingPathRaisesFileNotFound ==
    (entry = "process_pdf" /\ ~IsFile(fs, pdf_path)) =>
        /\ remoteLog = <<>>
        /\ pc = "done" => exc = "FileNotFoundError"

\* C2: artifacts of assembly (images/ and below, complete.md) are written by a run only
\* after ocr.process returned a response in that run; when a remote operation failed,
\* the call has ended with that error and the run has written no such artifact.
C2_NoArtifactBeforeResponse ==
    LET artifacts == {p \in MyWrites : IsAssemblyArtifact(p)}
    IN /\ artifacts # {} =>
             /\ Len(remoteLog) = 3
             /\ remoteLog[3].op = "ocr.process"
             /\ remoteLog[3].res = "response"
       /\ (remoteLog # <<>> /\ remoteLog[Len(remoteLog)].res = "error") =>
             /\ pc = "done"
             /\ exc = "SDKError"
             /\ artifacts = {}

C2_Witness ==
    /\ pc = "done"
    /\ exc = "SDKError"
    /\ Len(remoteLog) = 3
    /\ remoteLog[3].res = "error"
    /\ entry = "process_file"

\* C3: the remote operations of a run are a prefix of upload, get_signed_url,
\* ocr.process, each at most once; get_signed_url is issued only after a successful
\* upload, with the id it returned; ocr.process only after a successful
\* get_signed_url, with the URL it returned.
C3_RemoteOperationsInOrder ==
    /\ Len(remoteLog) <= 3
    /\ \A i \in 1..Len(remoteLog) :
           remoteLog[i].op = <<"files.upload", "files.get_signed_url", "ocr.process">>[i]
    /\ Len(remoteLog) >= 2 =>
           /\ remoteLog[1].res # "error"
           /\ remoteLog[2].arg = <<remoteLog[1].res>>
    /\ Len(remoteLog) >= 3 =>
           /\ remoteLog[2].res # "error"
           /\ remoteLog[3].arg = <<remoteLog[2].res>>

C3_Witness ==
    /\ Len(remoteLog) = 3
    /\ remoteLog[1].res = "file-2"
    /\ remoteLog[2].res = "https://signed/2"
    /\ remoteLog[3].res = "response"

\* C7: two calls of create_output_directory return the same directory exactly when
\* they read the same second and their sources have the same stem; every call,
\* also one for a directory that exists, succeeds and leaves the directory in place.
C7_SameDirIffSameSecondAndStem ==
    /\ \A c1, c2 \in calls :
           (c1.dir = c2.dir) <=> (c1.ts = c2.ts /\ c1.stem = c2.stem)
    /\ \A c \in calls : IsDir(fs, PathOf(c.dir, <<>>))
    /\ exc # "FileExistsError"

C7_Witness ==
    /\ \E c1, c2 \in calls : c1.run # c2.run /\ c1.dir = c2.dir
    /\ pc = "pf_copy"
    /\ exc = "none"

BatchRuns == {c \in calls : c.entry = "process_file"}

WroteInto(c) == {w.path.dir : w \in {x \in wlog : x.run = c.run /\ x.path # OutputsRoot}}

\* C8 as claimed: no two runs of process_file write into the same output directory.
C8_RunsNeverShareDirectory ==
    \A c1, c2 \in BatchRuns : c1.run # c2.run => WroteInto(c1) \cap WroteInto(c2) = {}

\* C8 amended: two runs of process_file write into the same output directory only when
\* they started in the same second for sources with the same stem; a run writes only
\* below the directory create_output_directory returned to it.
C8_RunsShareDirectoryOnlyOnSameSecondAndStem ==
    /\ \A c1, c2 \in BatchRuns :
          (c1.run # c2.run /\ ~(c1.ts = c2.ts /\ c1.stem = c2.stem))
              => WroteInto(c1) \cap WroteInto(c2) = {}
    /\ \A c \in BatchRuns : WroteInto(c) \subseteq {c.dir}

C8_Witness ==
    \E c1, c2 \in BatchRuns :
        /\ c1.run # c2.run
        /\ c1.ts = c2.ts
        /\ c1.stem # c2.stem
        /\ PathOf(c1.dir, <<"complete.md">>) \in {w.path : w \in {x \in wlog : x.run = c1.run}}
        /\ PathOf(c2.dir, <<"complete.md">>) \in {w.path : w \in {x \in wlog : x.run = c2.run}}

\* the image type an extension names
FormatOfExt(e) == CASE e \in {".jpg", ".jpeg"} -> "JPEG"
                    [] e = ".png" -> "PNG"
                    [] e = ".gif" -> "GIF"
                    [] e = ".bmp" -> "BMP"
                    [] e \in {".tiff", ".tif"} -> "TIFF"
                    [] e = ".webp" -> "WEBP"
                    [] OTHER -> "None"

ExtOf(p) == IF HasSuffix(p.name) THEN Lower(p.name[Len(p.name)]) ELSE ""

\* C9 as claimed: is_image_file returns True exactly when the extension is supported
\* and the content decodes as the image type of that extension; it never raises and
\* writes nothing.
C9_ImageIffExtensionAndItsType ==
    [][pc = "pf_classify" =>
          /\ pc' = "pf_branch"
          /\ exc' = "none"
          /\ fs' = fs
          /\ wlog' = wlog
          /\ is_img' = (/\ ExtOf(file_path) \in SUPPORTED_IMAGE_EXTENSIONS
                        /\ IsFile(fs, file_path)
                        /\ fs[file_path] = <<FormatOfExt(ExtOf(file_path))>>)]_vars

\* C9 amended: is_image_file returns True exactly when the (lower-cased) extension is
\* supported and the file is readable and its content is identified by the image
\* library as an image of some format, not necessarily the extension's; it never
\* raises and writes nothing.
C9_ImageIffExtensionAndSomeImage ==
    [][pc = "pf_classify" =>
          /\ pc' = "pf_branch"
          /\ exc' = "none"
          /\ fs' = fs
          /\ wlog' = wlog
          /\ is_img' = (/\ ExtOf(file_path) \in SUPPORTED_IMAGE_EXTENSIONS
                        /\ IsFile(fs, file_path)
                        /\ \E f \in PilFormats : fs[file_path] = <<f>>)]_vars

C9_Witness ==
    /\ entry = "is_image_file"
    /\ pc = "pf_branch"
    /\ is_img
    /\ file_path.name = <<"x", ".PNG">>
    /\ fs[file_path] = <<"JPEG">>

\* C10: a run of process_file hands at most one path to process_pdf, and only after
\* the input was copied to origin.<ext> in the run directory: converted.pdf of that
\* directory when the input was classified Image, the copy origin.<ext> when it was
\* classified Document, and then the run never writes converted.pdf.
C10_OneDocumentSubmitted ==
    entry = "process_file" =>
        /\ Len(submitted) <= 1
        /\ (pc \notin {"pf_copy", "pf_classify"} /\ ~is_img) =>
               PathOf(output_dir, <<"converted.pdf">>) \notin MyWrites
        /\ Len(submitted) = 1 =>
               /\ origin_file = PathOf(output_dir, <<"origin">> \o Suffix(file_path.name))
               /\ origin_file \in MyWrites
               /\ fs[origin_file] = fs[file_path]
               /\ pdf_path = submitted[1]
               /\ submitted[1] = IF is_img THEN PathOf(output_dir, <<"converted.pdf">>)
                                           ELSE origin_file
        /\ remoteLog # <<>> => Len(submitted) = 1

C10_Witness ==
    /\ entry = "process_file"
    /\ Returned
    /\ ~is_img
    /\ file_path = InputFakePng
    /\ submitted = <<PathOf(output_dir, <<"origin", ".png">>)>>
    /\ remoteLog # <<>>

(***************************************************************************)
(* Atomicity of save_ocr_results.                                          *)
(***************************************************************************)
\* the images walked before position (pageIdx, imgIdx), as <<page, image>> index pairs
AllImages ==
    UNION {{<<k, j>> : j \in 1..Len(response[k].images)} : k \in 1..Len(response)}

WalkedImages ==
    {kj \in AllImages : kj[1] < pageIdx \/ (kj[1] = pageIdx /\ kj[2] < imgIdx)}

ImageFileOf(kj) == PathOf(output_dir, <<"images", response[kj[1]].images[kj[2]].id, ".png">>)

\* C15: save_ocr_results writes complete.md only after every image of every page was
\* decoded and written; when an image fails, the call raises with complete.md neither
\* created nor written, and the image files written before the failure stay in images/.
C15_CompleteWrittenAfterAllImages ==
    entry = "save_ocr_results" =>
        /\ (PathOf(output_dir, <<"complete.md">>) \in DOMAIN fs \cup MyWrites) =>
               /\ Returned
               /\ \A kj \in AllImages : IsFile(fs, ImageFileOf(kj))
        /\ (pc = "done" /\ exc # "none") =>
               /\ PathOf(output_dir, <<"complete.md">>) \notin DOMAIN fs \cup MyWrites
               /\ \A kj \in WalkedImages : IsFile(fs, ImageFileOf(kj))

C15_Witness ==
    /\ entry = "save_ocr_results"
    /\ pc = "done"
    /\ exc = "FileNotFoundError"
    /\ pageIdx = 2
    /\ imgIdx = 2
    /\ IsFile(fs, PathOf(output_dir, <<"images", "img1", ".png">>))
    /\ IsFile(fs, PathOf(output_dir, <<"images", "img2", ".png">>))


(***************************************************************************)
(* Claims about MarkdownPreviewApp.                                        *)
(***************************************************************************)
\* C11: in GUI mode every change of presentation state (widgets, status, and
\* application fields that UI handlers read, the current output directory among
\* them) is made by a step of the main thread; the worker only posts callbacks.
C11_WorkerNeverTouchesPresentationState ==
    [][uiState' # uiState => actor' = "ui"]_vars


\* C13: in GUI mode at most one worker thread is alive at any time; while one is
\* alive the process button is disabled; the step that starts a worker disables
\* the button, and only the reset callback, run after the worker has posted it as
\* its last action, enables it again.
C13_AtMostOneWorker ==
    /\ [](workers <= 1 /\ (workers = 1 => buttons.process = "disabled"))
    /\ [][workers' > workers => buttons'.process = "disabled"]_vars
    /\ [][(buttons.process = "disabled" /\ buttons'.process = "normal") =>
              /\ afterQueue # <<>> /\ Head(afterQueue).fn = "reset"
              /\ posted # <<>> /\ posted[Len(posted)] = "reset"
              /\ wpc = "none"]_vars

\* a second worker runs the pipeline after the first one ended and the button was
\* enabled again
C13_Witness ==
    /\ run = 2 /\ workers = 1 /\ wpc = "pipeline" /\ pc = "save_loop"
    /\ buttons.process = "disabled"

RunOutcomes == {<<"update", "reset">>, <<"error", "reset">>}

IsPrefixOf(a, b) == Len(a) <= Len(b) /\ SubSeq(b, 1, Len(a)) = a

IsSuffixOf(a, b) == Len(a) <= Len(b) /\ SubSeq(b, Len(b) - Len(a) + 1, Len(b)) = a

QueuedFns == [k \in 1..Len(afterQueue) |-> afterQueue[k].fn]

UiReleased == buttons.process = "normal" /\ buttons.browse = "normal" /\ ~progress

\* C14: every started worker posts exactly one outcome callback, the update when
\* process_file returned and the error dialog when it raised, and then exactly one
\* reset callback; the callbacks run in that order; the text area is replaced only
\* by the update callback of a successful run, with that run's Markdown; after
\* every started worker the process and browse buttons are eventually enabled and
\* the progress bar stopped.
C14_OneOutcomeThenReset ==
    /\ [](/\ \E o \in RunOutcomes : IsPrefixOf(posted, o)
          /\ posted # <<>> => (posted[1] = "update" <=> exc = "none")
          /\ (wpc = "none" /\ run > 0) => posted \in RunOutcomes
          /\ IsSuffixOf(QueuedFns, posted))
    /\ [][source_text' # source_text =>
              /\ afterQueue # <<>> /\ Head(afterQueue).fn = "update"
              /\ exc = "none"
              /\ source_text' = ret]_vars
    /\ (wpc # "none") ~> UiReleased

\* after a successful run filled the text area, a failing run showed its error
\* dialog and its reset callback released the buttons
C14_Witness ==
    /\ source_text # <<>>
    /\ posted = <<"error", "reset">> /\ afterQueue = <<>>
    /\ exc # "none" /\ last_dialog = "processing error"
    /\ UiReleased

(***************************************************************************)
(* Claims about main_cli.                                                  *)
(***************************************************************************)
\* C12: in CLI batch mode the files are attempted in argument order, each at most
\* once; a failure of process_file is caught and reported and does not end the
\* loop; the prompt is shown only without --auto and never after the last file;
\* the loop stops before the last file only when the user answers q at the
\* prompt; with --auto every listed file is attempted.
C12_BatchLoopStopsOnlyOnQuit ==
    cli_pc # "none" =>
        /\ cli_attempts = [k \in 1..Len(cli_attempts) |-> k]
        /\ Len(cli_attempts) <= Len(cli_files)
        /\ \A k \in 1..Len(cli_prompts) : ~cli_auto /\ cli_prompts[k] < Len(cli_files)
        /\ (cli_pc \in {"loop", "end"} /\ cli_attempts # <<>> /\ exc # "none") =>
               /\ cli_reported # <<>>
               /\ cli_reported[Len(cli_reported)] =
                      [i |-> cli_attempts[Len(cli_attempts)], e |-> exc]
        /\ (cli_pc = "end" /\ Len(cli_attempts) < Len(cli_files)) =>
               /\ cli_exc = "none"
               /\ Lower(cli_response) = "q"
        /\ (cli_pc = "end" /\ cli_auto) => Len(cli_attempts) = Len(cli_files)

====
